---- MODULE Spec2Model ----
(***************************************************************************)
(* Model of the metric streaming synchronizer (MetricStreamer) of the      *)
(* analytics web client: the viewport, the metric store with one coverage  *)
(* tracker (MetricState) per metric, the semaphore that gates the block    *)
(* fetches, and the asynchronous fetch tasks started by tick.              *)
(*                                                                         *)
(* One action is one JavaScript macro task: a call of the host (tick,      *)
(* initializeAsync) or the arrival of a network response.  Continuations   *)
(* that an action makes runnable (a resolved acquire) run as micro tasks   *)
(* before the next macro task and are part of the action.                  *)
(***************************************************************************)
EXTENDS Integers, Sequences, FiniteSets, Bags, TLC

(* ---------------------------- bounds ----------------------------------- *)
NumBlocks == 3          \* blocks listed for the process
MaxTime == 2            \* time stamps are 0 .. MaxTime
MaxLod == 1             \* levels of detail are 0 .. MaxLod
MaxTicks == 3           \* calls of tick by the host
MaxFailures == 1        \* network errors of block fetches
TrkBlocks == 3          \* blocks registered into the tracker under test
MaxTrkTime == 3         \* their time stamps are 0 .. MaxTrkTime

(* ------------------------ program constants ---------------------------- *)
SemaphorePermits == 8
Infinity == 1000
NegInfinity == 0 - Infinity

(* ------------------ the process served by the backend ------------------ *)
ProcessBlocks == 1 .. NumBlocks
Lods == 0 .. MaxLod
Times == 0 .. MaxTime
MetricOrder == <<"cpu", "mem">>
MetricNames == {MetricOrder[i] : i \in 1 .. Len(MetricOrder)}

\* time range of the block, as its manifest reports it
BlockMinMs(b) == (b - 1) % MaxTime
BlockMaxMs(b) == BlockMinMs(b) + 1
\* metric descriptors of the manifest of block b, in manifest order:
\* the last block carries no "mem" samples
ManifestMetrics(b) == IF b < NumBlocks THEN MetricOrder ELSE <<"cpu">>

Keys == MetricNames \X ProcessBlocks \X Lods

VARIABLES
    client,                 \* "null" or "client"
    initPc,                 \* position of initializeAsync
    metricStore,            \* metric name -> MetricState, registered metrics only
    currentMinMs,
    currentMaxMs,
    permits,                \* semaphore: free units
    promiseResolverQueue,   \* semaphore: suspended acquire calls, FIFO
    holders,                \* bag of fetch tasks between acquire and release
    requests,               \* bag of fetch_block_metric requests without response
    issued,                 \* bag of fetch_block_metric requests ever sent
    resolved,               \* keys whose fetch returned data
    failed,                 \* keys whose fetch returned an error
    nTicks,
    processBlocks,          \* the blocks of the list_process_blocks reply
    trkIn,                  \* tracker under test: the block ranges to register
    trkDone,                \* tracker under test: the blocks registered so far
    trkCov,                 \* tracker under test: its coverage of one LOD
    track,                  \* drawSpanTrack: the spans, <<beginMs, endMs>> each
    viewRange,              \* drawSpanTrack: <<begin, end>> of the context
    processOffsetMs,        \* drawSpanTrack: offset of the process
    drawPc,                 \* drawSpanTrack: "idle" before the call, "done" after
    firstSpan,              \* drawSpanTrack: first index of the loop (0-based)
    lastSpan,               \* drawSpanTrack: exclusive end of the loop
    visited,                \* drawSpanTrack: 0-based indices the loop reached
    scopeHash,              \* drawSpanTrack: scopeHash of each span of the track
    scopes,                 \* the state store: the hashes the scope table holds
    filled,                 \* the canvas: 0-based indices of the spans filled
    canvas,                 \* the drawer: "undefined" until initialize(canvas, ctx)
    drawable,               \* the drawer: what canDraw() returns
    fills,                  \* the canvas: fillStyle of the fillRect calls of draw
    caption,                \* getCaptions: the name, one character per element
    textWidth,              \* writeText: width
    characterWidth,         \* writeText: characterWidth
    glyphWidth,             \* the canvas: measured width of one drawn character
    textPc,                 \* writeText: "idle" before the call, "done" after
    drawn,                  \* the canvas: the fillText calls, in order
    retryN,                 \* retry: the argument n of the call by the host
    nLeft,                  \* retry: n of the innermost call of retry
    attempts,               \* retry: how the calls of f ended, in order
    retryPc,                \* retry: "awaiting" f, "resolved" or "rejected"
    settled,                \* retry: what the promise of the host settled with
    delayMs,                \* debounce: the delay ms
    now,                    \* debounce: the clock
    timeout,                \* debounce: <<>> or <<deadline, args>> of the timer
    calls,                  \* debounce: <<time, args>> of the calls so far
    invoked,                \* debounce: <<time, args>> of the invocations of f
    loadingStore,           \* the loading store: [requested, completed]
    promises,               \* loading: the promises given to it, in order
    resets,                 \* loading: number of reset() calls
    listeners,              \* dropzone element: <<event type, handler>> attached
    dndPc,                  \* dropzone action: "none", "attached", "destroyed"
    dndStore,               \* the drag store: "null" or the type being dragged
    dispatched              \* dropzone element: the custom events dispatched

trkVars == <<trkIn, trkDone, trkCov>>
drawVars == <<track, viewRange, processOffsetMs, drawPc, firstSpan, lastSpan,
              visited, scopeHash, scopes, filled, canvas, drawable, fills>>
streamerVars == <<client, initPc, metricStore, currentMinMs, currentMaxMs,
                  permits, promiseResolverQueue, holders, requests, issued,
                  resolved, failed, nTicks, processBlocks>>
\* what the streamer never touches
textVars == <<caption, textWidth, characterWidth, glyphWidth, textPc, drawn>>
retryVars == <<retryN, nLeft, attempts, retryPc, settled>>
debounceVars == <<delayMs, now, timeout, calls, invoked>>
loadVars == <<loadingStore, promises, resets>>
dndVars == <<listeners, dndPc, dndStore, dispatched>>
\* the loading store and the drag and drop actions
uiVars == <<loadVars, dndVars>>
\* the helpers of lib/promises and of the user interface
utilVars == <<retryVars, debounceVars, uiVars>>
otherVars == <<trkVars, drawVars, textVars, utilVars>>
vars == <<streamerVars, otherVars>>

(* ----------------------------- helpers --------------------------------- *)
Min(S) == CHOOSE x \in S : \A y \in S : x <= y
Max(S) == CHOOSE x \in S : \A y \in S : x >= y

RECURSIVE SortedSeq(_)
SortedSeq(S) == IF S = {} THEN <<>> ELSE <<Min(S)>> \o SortedSeq(S \ {Min(S)})

\* variant: a minimum that starts its reduction from -Infinity
MathMinFromNegInfinity(S) == IF S = {} THEN NegInfinity ELSE Min(S)

\* Math.min(...xs) and Math.max(...xs): the empty reduction gives the infinities
MathMin(S) == IF S = {} THEN Infinity ELSE Min(S)
MathMax(S) == IF S = {} THEN NegInfinity ELSE Max(S)

Bag1(k) == SetToBag({k})

(* ------------------- MetricState: the coverage tracker ----------------- *)
\* new MetricState(metricDesc)
NewMetricState(metricDesc) ==
    [desc |-> metricDesc, blocks |-> {}, min |-> Infinity, max |-> NegInfinity,
     requested |-> {}, stored |-> {},
     coverage |-> [l \in Lods |-> <<>>]]

\* MetricState.registerBlock(blockManifest): the block becomes known
registerManifestBlock(ms, b) ==
    [ms EXCEPT !.blocks = @ \cup {b},
               !.min = IF BlockMinMs(b) < @ THEN BlockMinMs(b) ELSE @,
               !.max = IF BlockMaxMs(b) > @ THEN BlockMaxMs(b) ELSE @]

canBeDisplayed(ms) == ms.blocks # {}

isInViewport(b, min, max) == BlockMinMs(b) <= max /\ BlockMaxMs(b) >= min

\* variant: only the blocks that lie inside [min, max] are returned
requestMissingBlocksInside(ms, min, max, lod) ==
    SortedSeq({b \in ms.blocks :
                  /\ min <= BlockMinMs(b) /\ BlockMaxMs(b) <= max
                  /\ <<b, lod>> \notin ms.stored
                  /\ <<b, lod>> \notin ms.requested})

\* blocks returned by requestMissingBlocks(min, max, lod), in block order
requestMissingBlocks(ms, min, max, lod) ==
    SortedSeq({b \in ms.blocks :
                  /\ isInViewport(b, min, max)
                  /\ <<b, lod>> \notin ms.stored
                  /\ <<b, lod>> \notin ms.requested})

\* variant: requestMissingBlocks leaves no trace of what it returned
markRequestedNoop(ms, min, max, lod) == ms

\* variant: only the first returned block is remembered as in flight
markRequestedFirstOnly(ms, min, max, lod) ==
    LET bs == requestMissingBlocks(ms, min, max, lod)
    IN IF bs = <<>> THEN ms ELSE [ms EXCEPT !.requested = @ \cup {<<bs[1], lod>>}]

\* the tracker after requestMissingBlocks: the returned blocks are in flight
markRequested(ms, min, max, lod) ==
    LET bs == requestMissingBlocks(ms, min, max, lod)
    IN [ms EXCEPT !.requested = @ \cup {<<bs[i], lod>> : i \in 1 .. Len(bs)}]

RECURSIVE mergeInsert(_, _, _)
\* variant: the interval is inserted at its place without merging
mergeInsertNoMerge(cov, lo, hi) ==
    IF cov = <<>> THEN <<<<lo, hi>>>>
    ELSE LET h == Head(cov)
         IN IF lo < h[1] \/ (lo = h[1] /\ hi <= h[2]) THEN <<<<lo, hi>>>> \o cov
            ELSE <<h>> \o mergeInsert(Tail(cov), lo, hi)

\* variant: the new interval replaces the stored intervals it overlaps
mergeInsertReplace(cov, lo, hi) ==
    IF cov = <<>> THEN <<<<lo, hi>>>>
    ELSE LET h == Head(cov)
         IN IF hi < h[1] THEN <<<<lo, hi>>>> \o cov
            ELSE IF h[2] < lo THEN <<h>> \o mergeInsert(Tail(cov), lo, hi)
            ELSE mergeInsert(Tail(cov), lo, hi)

\* variant: an overlapping interval is merged with the first interval it meets only
mergeInsertHeadOnly(cov, lo, hi) ==
    IF cov = <<>> THEN <<<<lo, hi>>>>
    ELSE LET h == Head(cov)
         IN IF hi < h[1] THEN <<<<lo, hi>>>> \o cov
            ELSE IF h[2] < lo THEN <<h>> \o mergeInsert(Tail(cov), lo, hi)
            ELSE <<<<IF h[1] < lo THEN h[1] ELSE lo,
                     IF h[2] > hi THEN h[2] ELSE hi>>>> \o Tail(cov)

\* merge-on-insert of the interval <<lo, hi>> into a sorted list of disjoint intervals
mergeInsert(cov, lo, hi) ==
    IF cov = <<>> THEN <<<<lo, hi>>>>
    ELSE LET h == Head(cov)
         IN IF hi < h[1] THEN <<<<lo, hi>>>> \o cov
            ELSE IF h[2] < lo THEN <<h>> \o mergeInsert(Tail(cov), lo, hi)
            ELSE mergeInsert(Tail(cov),
                             IF h[1] < lo THEN h[1] ELSE lo,
                             IF h[2] > hi THEN h[2] ELSE hi)

\* variant: the samples are merged into the coverage but the block is not
\* marked as materialized
storeBlockNotMaterialized(ms, b, lod) ==
    [ms EXCEPT !.requested = @ \ {<<b, lod>>},
               !.coverage[lod] = mergeInsert(@, BlockMinMs(b), BlockMaxMs(b))]

\* MetricState after the samples of block b at lod were registered
storeBlock(ms, b, lod) ==
    [ms EXCEPT !.stored = @ \cup {<<b, lod>>},
               !.requested = @ \ {<<b, lod>>},
               !.coverage[lod] = mergeInsert(@, BlockMinMs(b), BlockMaxMs(b))]

(* ------------------------------ MetricStore ---------------------------- *)
\* metricStore.registerMetrics(states): a metric already present is kept
registerMetrics(store, states) ==
    [m \in DOMAIN store \cup DOMAIN states |->
        IF m \in DOMAIN store THEN store[m] ELSE states[m]]

\* metricStore.registerBlock(blockData, blockId, metricName)
registerBlock(store, m, b, lod) ==
    IF m \in DOMAIN store
    THEN [store EXCEPT ![m] = storeBlock(@, b, lod)]
    ELSE store

\* get(metricStore), in registration order
storeOrder(store) == SelectSeq(MetricOrder, LAMBDA m : m \in DOMAIN store)

(* ------------------------------ Semaphore ------------------------------ *)
\* The gate as one record: the semaphore and the instrumented fetch tasks.
Gate == [permits |-> permits, queue |-> promiseResolverQueue,
         holders |-> holders, requests |-> requests, issued |-> issued]

\* the task passed `await semaphore.acquire()` and sends fetch_block_metric
enterAndFetch(g, k) ==
    [g EXCEPT !.holders = @ (+) Bag1(k),
              !.requests = @ (+) Bag1(k),
              !.issued = @ (+) Bag1(k)]

\* variant: acquire() is called but not awaited
startTaskNoAwait(g, k) ==
    enterAndFetch(IF g.permits > 0 THEN [g EXCEPT !.permits = @ - 1] ELSE g, k)

\* variant: fetch_block_metric is sent before the acquire is awaited
startTaskFetchFirst(g, k) ==
    IF g.permits > 0
    THEN enterAndFetch([g EXCEPT !.permits = @ - 1], k)
    ELSE [g EXCEPT !.queue = Append(@, k),
                   !.requests = @ (+) Bag1(k),
                   !.issued = @ (+) Bag1(k)]

\* one fetch task up to its first suspension: await this.semaphore.acquire()
startTask(g, k) ==
    IF g.permits > 0
    THEN enterAndFetch([g EXCEPT !.permits = @ - 1], k)
    ELSE [g EXCEPT !.queue = Append(@, k)]

RECURSIVE startTasks(_, _)
startTasks(g, ks) ==
    IF ks = <<>> THEN g ELSE startTasks(startTask(g, Head(ks)), Tail(ks))

\* variant: release() gives the unit back and wakes nobody
releaseWakesNobody(g, k) ==
    [g EXCEPT !.holders = @ (-) Bag1(k), !.permits = @ + 1]

\* semaphore.release() by task k, and the waiter it wakes
release(g, k) ==
    LET g1 == [g EXCEPT !.holders = @ (-) Bag1(k), !.permits = @ + 1]
    IN IF g1.permits = 1 /\ g1.queue # <<>>
       THEN enterAndFetch([g1 EXCEPT !.permits = 0, !.queue = Tail(@)],
                          Head(g1.queue))
       ELSE g1

SetGate(g) ==
    /\ permits' = g.permits
    /\ promiseResolverQueue' = g.queue
    /\ holders' = g.holders
    /\ requests' = g.requests
    /\ issued' = g.issued

(* ---------------------------- MetricStreamer --------------------------- *)
StreamerInit ==
    /\ client = "null"
    /\ initPc = "idle"
    /\ metricStore = <<>>
    /\ currentMinMs = NegInfinity
    /\ currentMaxMs = Infinity
    /\ permits = SemaphorePermits
    /\ promiseResolverQueue = <<>>
    /\ holders = EmptyBag
    /\ requests = EmptyBag
    /\ issued = EmptyBag
    /\ resolved = {}
    /\ failed = {}
    /\ nTicks = 0
    /\ processBlocks = {}

\* the tracker under test at rest
TrackerIdle ==
    /\ trkIn = <<>>
    /\ trkDone = {}
    /\ trkCov = <<>>

\* the drawer at rest
DrawIdle ==
    /\ track = <<>>
    /\ viewRange = <<0, 0>>
    /\ processOffsetMs = 0
    /\ drawPc = "done"
    /\ firstSpan = 0
    /\ lastSpan = 0
    /\ visited = {}
    /\ scopeHash = <<>>
    /\ scopes = {}
    /\ filled = {}
    /\ canvas = "undefined"
    /\ drawable = FALSE
    /\ fills = <<>>

\* no caption is being written
TextIdle ==
    /\ caption = <<>>
    /\ textWidth = 0
    /\ characterWidth = 1
    /\ glyphWidth = 1
    /\ textPc = "done"
    /\ drawn = <<>>

\* retry was called with n = 0 and f resolved at once
RetryIdle ==
    /\ retryN = 0
    /\ nLeft = 0
    /\ attempts = <<"value">>
    /\ retryPc = "resolved"
    /\ settled = "value"

\* a debounced function that was never called
DebounceIdle ==
    /\ delayMs = 1
    /\ now = 0
    /\ timeout = <<>>
    /\ calls = <<>>
    /\ invoked = <<>>

\* the loading store as created, nothing loading
LoadIdle ==
    /\ loadingStore = [requested |-> 0, completed |-> 0]
    /\ promises = <<>>
    /\ resets = 0

\* no dropzone action on the element
DndIdle ==
    /\ listeners = {}
    /\ dndPc = "none"
    /\ dndStore = "null"
    /\ dispatched = <<>>

UiIdle == LoadIdle /\ DndIdle

UtilIdle == RetryIdle /\ DebounceIdle /\ UiIdle

Init ==
    /\ StreamerInit
    /\ TrackerIdle
    /\ DrawIdle
    /\ TextIdle
    /\ UtilIdle

\* the descriptor of the metric m in the manifest of the block b
MetricDesc(m, b) == <<m, b>>

RECURSIVE addManifestMetrics(_, _, _)
\* variant: every manifest replaces the tracker of the metrics it describes
addManifestMetricsLastWins(states, b, descs) ==
    IF descs = <<>> THEN states
    ELSE LET m == Head(descs)
             s1 == [x \in DOMAIN states \cup {m} |->
                      IF x = m THEN NewMetricState(MetricDesc(m, b))
                      ELSE states[x]]
             s2 == [s1 EXCEPT ![m] = registerManifestBlock(@, b)]
         IN addManifestMetrics(s2, b, Tail(descs))

\* the metricStates map built from the block manifests
addManifestMetrics(states, b, descs) ==
    IF descs = <<>> THEN states
    ELSE LET m == Head(descs)
             s1 == IF m \in DOMAIN states THEN states
                   ELSE [x \in DOMAIN states \cup {m} |->
                            IF x = m THEN NewMetricState(MetricDesc(m, b))
                            ELSE states[x]]
             s2 == [s1 EXCEPT ![m] = registerManifestBlock(@, b)]
         IN addManifestMetrics(s2, b, Tail(descs))

RECURSIVE buildMetricStates(_, _)
buildMetricStates(states, bs) ==
    IF bs = <<>> THEN states
    ELSE buildMetricStates(
             addManifestMetrics(states, Head(bs), ManifestMetrics(Head(bs))),
             Tail(bs))

\* initializeAsync up to its first await: list_process_blocks is sent
initializeAsync ==
    /\ initPc = "idle"
    /\ client' = "client"
    /\ initPc' = "list"
    /\ UNCHANGED <<metricStore, currentMinMs, currentMaxMs, permits,
                   promiseResolverQueue, holders, requests, issued, resolved,
                   failed, nTicks, processBlocks, otherVars>>

\* the block list arrived (the process may have no metric blocks): one
\* manifest request per block is sent
listProcessBlocksOk ==
    /\ initPc = "list"
    /\ initPc' = "manifests"
    /\ processBlocks' \in {ProcessBlocks, {}}
    /\ UNCHANGED <<client, metricStore, currentMinMs, currentMaxMs, permits,
                   promiseResolverQueue, holders, requests, issued, resolved,
                   failed, nTicks, otherVars>>

\* Promise.all of the manifests resolved: the store and the viewport are set
manifestsOk ==
    /\ initPc = "manifests"
    /\ initPc' = "done"
    /\ LET states == buildMetricStates(<<>>, SortedSeq(processBlocks))
           store == registerMetrics(metricStore, states)
       IN /\ metricStore' = store
          /\ currentMinMs' = MathMin({store[m].min : m \in DOMAIN store})
          /\ currentMaxMs' = MathMax({store[m].max : m \in DOMAIN store})
    /\ UNCHANGED <<client, permits, promiseResolverQueue, holders, requests,
                   issued, resolved, failed, nTicks, processBlocks, otherVars>>

\* variant: the manifests that arrived before the failure are registered
initializeRejectedKeepsPartial ==
    /\ initPc \in {"list", "manifests"}
    /\ initPc' = "rejected"
    /\ LET arrived == processBlocks \ {Max(processBlocks \cup {0})}
           states == buildMetricStates(<<>>, SortedSeq(arrived))
           store == registerMetrics(metricStore, states)
       IN /\ metricStore' = store
          /\ currentMinMs' = MathMin({store[m].min : m \in DOMAIN store})
          /\ currentMaxMs' = MathMax({store[m].max : m \in DOMAIN store})
    /\ UNCHANGED <<client, permits, promiseResolverQueue, holders, requests,
                   issued, resolved, failed, nTicks, processBlocks, otherVars>>

\* list_process_blocks or one manifest request failed: initializeAsync rejects
initializeRejected ==
    /\ initPc \in {"list", "manifests"}
    /\ initPc' = "rejected"
    /\ UNCHANGED <<client, metricStore, currentMinMs, currentMaxMs, permits,
                   promiseResolverQueue, holders, requests, issued, resolved,
                   failed, nTicks, processBlocks, otherVars>>

\* the metrics fetchSelectedMetrics works on, in store order
displayedMetrics(store) ==
    SelectSeq(storeOrder(store), LAMBDA m : canBeDisplayed(store[m]))

\* variant: blocks are requested for every metric of the registry, from the
\* block list of the process
missingTasksWholeRegistry(store, ms, min, max, lod) ==
    LET order == storeOrder(store)
        bs == SortedSeq({b \in ProcessBlocks : isInViewport(b, min, max)})
        ks[i \in 0 .. Len(order)] ==
            IF i = 0 THEN <<>>
            ELSE ks[i - 1] \o [j \in 1 .. Len(bs) |-> <<order[i], bs[j], lod>>]
    IN ks[Len(order)]

\* missingBlocks of fetchSelectedMetrics, flattened to the order the tasks start in
RECURSIVE missingTasks(_, _, _, _, _)
missingTasks(store, ms, min, max, lod) ==
    IF ms = <<>> THEN <<>>
    ELSE LET bs == requestMissingBlocks(store[Head(ms)], min, max, lod)
         IN [i \in 1 .. Len(bs) |-> <<Head(ms), bs[i], lod>>]
            \o missingTasks(store, Tail(ms), min, max, lod)

\* the store after the requestMissingBlocks calls of fetchSelectedMetrics
storeAfterRequest(store, min, max, lod) ==
    [m \in DOMAIN store |->
        IF canBeDisplayed(store[m]) THEN markRequested(store[m], min, max, lod)
        ELSE store[m]]

\* variant: the missing blocks are computed for the viewport of the previous tick
fetchSelectedMetricsOldViewport(lod, min, max) ==
    LET ks == missingTasks(metricStore, displayedMetrics(metricStore),
                           currentMinMs, currentMaxMs, lod)
    IN IF Len(ks) = 0
       THEN UNCHANGED <<metricStore, permits, promiseResolverQueue, holders,
                        requests, issued>>
       ELSE /\ metricStore' = storeAfterRequest(metricStore, currentMinMs,
                                                currentMaxMs, lod)
            /\ SetGate(startTasks(Gate, ks))

\* fetchSelectedMetrics(lod) with the viewport [min, max]
fetchSelectedMetrics(lod, min, max) ==
    LET ks == missingTasks(metricStore, displayedMetrics(metricStore), min, max, lod)
    IN IF Len(ks) = 0
       THEN UNCHANGED <<metricStore, permits, promiseResolverQueue, holders,
                        requests, issued>>
       ELSE /\ metricStore' = storeAfterRequest(metricStore, min, max, lod)
            /\ SetGate(startTasks(Gate, ks))

tick(lod, min, max) ==
    /\ nTicks < MaxTicks
    /\ nTicks' = nTicks + 1
    /\ currentMinMs' = min
    /\ currentMaxMs' = max
    /\ fetchSelectedMetrics(lod, min, max)
    /\ UNCHANGED <<client, initPc, resolved, failed, processBlocks, otherVars>>

\* variant: the samples are dropped
fetchResolvedNoRegister(k) ==
    /\ BagIn(k, requests)
    /\ SetGate(release([Gate EXCEPT !.requests = @ (-) Bag1(k)], k))
    /\ resolved' = resolved \cup {k}
    /\ UNCHANGED <<client, initPc, metricStore, currentMinMs, currentMaxMs,
                   failed, nTicks, processBlocks, otherVars>>

\* variant: samples of a block outside the current viewport are dropped
fetchResolvedDropStale(k) ==
    /\ BagIn(k, requests)
    /\ metricStore' = IF isInViewport(k[2], currentMinMs, currentMaxMs)
                      THEN registerBlock(metricStore, k[1], k[2], k[3])
                      ELSE metricStore
    /\ SetGate(release([Gate EXCEPT !.requests = @ (-) Bag1(k)], k))
    /\ resolved' = resolved \cup {k}
    /\ UNCHANGED <<client, initPc, currentMinMs, currentMaxMs, failed, nTicks,
                   processBlocks, otherVars>>

\* variant: the viewport is widened to the block that arrived
fetchResolvedMovesViewport(k) ==
    /\ BagIn(k, requests)
    /\ metricStore' = registerBlock(metricStore, k[1], k[2], k[3])
    /\ SetGate(release([Gate EXCEPT !.requests = @ (-) Bag1(k)], k))
    /\ resolved' = resolved \cup {k}
    /\ currentMinMs' = MathMin({currentMinMs, BlockMinMs(k[2])})
    /\ currentMaxMs' = MathMax({currentMaxMs, BlockMaxMs(k[2])})
    /\ UNCHANGED <<client, initPc, failed, nTicks, processBlocks, otherVars>>

\* the response of fetch_block_metric for task k carries data
fetchResolved(k) ==
    /\ BagIn(k, requests)
    /\ metricStore' = registerBlock(metricStore, k[1], k[2], k[3])
    /\ SetGate(release([Gate EXCEPT !.requests = @ (-) Bag1(k)], k))
    /\ resolved' = resolved \cup {k}
    /\ UNCHANGED <<client, initPc, currentMinMs, currentMaxMs, failed, nTicks,
                   processBlocks, otherVars>>

\* variant: release() follows the registration instead of standing in a finally
fetchRejectedNoFinally(k) ==
    /\ BagIn(k, requests)
    /\ Cardinality(failed) < MaxFailures
    /\ SetGate([Gate EXCEPT !.requests = @ (-) Bag1(k)])
    /\ failed' = failed \cup {k}
    /\ UNCHANGED <<client, initPc, metricStore, currentMinMs, currentMaxMs,
                   resolved, nTicks, processBlocks, otherVars>>

\* variant: the error of one task rejects the tasks that still wait for the gate
fetchRejectedAborts(k) ==
    /\ BagIn(k, requests)
    /\ Cardinality(failed) < MaxFailures
    /\ SetGate([release([Gate EXCEPT !.requests = @ (-) Bag1(k)], k)
                   EXCEPT !.queue = <<>>])
    /\ failed' = failed \cup {k}
    /\ UNCHANGED <<client, initPc, metricStore, currentMinMs, currentMaxMs,
                   resolved, nTicks, processBlocks, otherVars>>

\* variant: the task that failed is started again
fetchRejectedRetries(k) ==
    /\ BagIn(k, requests)
    /\ Cardinality(failed) < MaxFailures
    /\ SetGate(startTask(release([Gate EXCEPT !.requests = @ (-) Bag1(k)], k), k))
    /\ failed' = failed \cup {k}
    /\ UNCHANGED <<client, initPc, metricStore, currentMinMs, currentMaxMs,
                   resolved, nTicks, processBlocks, otherVars>>

\* fetch_block_metric for task k throws: only the finally block runs
fetchRejected(k) ==
    /\ BagIn(k, requests)
    /\ Cardinality(failed) < MaxFailures
    /\ SetGate(release([Gate EXCEPT !.requests = @ (-) Bag1(k)], k))
    /\ failed' = failed \cup {k}
    /\ UNCHANGED <<client, initPc, metricStore, currentMinMs, currentMaxMs,
                   resolved, nTicks, processBlocks, otherVars>>

Tick == \E lod \in Lods, min \in Times, max \in Times :
            min <= max /\ tick(lod, min, max)
FetchResolved == \E k \in Keys : fetchResolved(k)
FetchRejected == \E k \in Keys : fetchRejected(k)

Next ==
    \/ initializeAsync
    \/ listProcessBlocksOk
    \/ manifestsOk
    \/ initializeRejected
    \/ Tick
    \/ FetchResolved
    \/ FetchRejected

Spec == Init /\ [][Next]_vars

(* -------------------- every way a fetch task can end ------------------- *)
\* variant: an empty response returns before the release
fetchedNothingReturnsEarly(k) ==
    /\ BagIn(k, requests)
    /\ SetGate([Gate EXCEPT !.requests = @ (-) Bag1(k)])
    /\ UNCHANGED <<client, initPc, metricStore, currentMinMs, currentMaxMs,
                   resolved, failed, nTicks, processBlocks, otherVars>>

\* the response of fetch_block_metric for task k is empty: `if (blockData)`
\* is false, nothing is registered, the finally block runs
fetchedNothing(k) ==
    /\ BagIn(k, requests)
    /\ SetGate(release([Gate EXCEPT !.requests = @ (-) Bag1(k)], k))
    /\ UNCHANGED <<client, initPc, metricStore, currentMinMs, currentMaxMs,
                   resolved, failed, nTicks, processBlocks, otherVars>>

\* the response for task k carries data and metricStore.registerBlock throws,
\* before or after the block was taken in: the finally block runs
registerBlockThrows(k) ==
    /\ BagIn(k, requests)
    /\ Cardinality(failed) < MaxFailures
    /\ metricStore' \in {metricStore, registerBlock(metricStore, k[1], k[2], k[3])}
    /\ SetGate(release([Gate EXCEPT !.requests = @ (-) Bag1(k)], k))
    /\ failed' = failed \cup {k}
    /\ UNCHANGED <<client, initPc, currentMinMs, currentMaxMs, resolved, nTicks,
                   processBlocks, otherVars>>

FetchedNothing == \E k \in Keys : fetchedNothing(k)
RegisterBlockThrows == \E k \in Keys : registerBlockThrows(k)

\* the host asks for the whole range of the process, at any LOD
GateTick == \E lod \in Lods : tick(lod, 0, MaxTime)

GateNext ==
    \/ initializeAsync
    \/ listProcessBlocksOk
    \/ manifestsOk
    \/ initializeRejected
    \/ GateTick
    \/ FetchResolved
    \/ FetchedNothing
    \/ FetchRejected
    \/ RegisterBlockThrows

SpecGate == Init /\ [][GateNext]_vars

(* ------------------ the streamer with a network that answers ---------- *)
ProgressNext ==
    \/ initializeAsync
    \/ listProcessBlocksOk
    \/ manifestsOk
    \/ initializeRejected
    \/ GateTick
    \/ FetchResolved
    \/ FetchRejected

\* every fetch_block_metric request gets a response or an error in the end
NetworkAnswers ==
    \A k \in Keys : WF_vars(fetchResolved(k) \/ fetchRejected(k))

SpecProgress == Init /\ [][ProgressNext]_vars /\ NetworkAnswers

(* ------------- the registry with a metric that has no manifest -------- *)
\* The store of getMetricStore() is shared: another user of the registry
\* registers a tracker on which no manifest was registered.
registerMetricWithoutManifest(m) ==
    /\ m \notin DOMAIN metricStore
    /\ metricStore' = registerMetrics(metricStore,
                          [x \in {m} |-> NewMetricState(MetricDesc(m, 0))])
    /\ UNCHANGED <<client, initPc, currentMinMs, currentMaxMs, permits,
                   promiseResolverQueue, holders, requests, issued, resolved,
                   failed, nTicks, processBlocks, otherVars>>

RegisterMetricWithoutManifest ==
    \E m \in MetricNames : registerMetricWithoutManifest(m)

VisibleNext ==
    \/ RegisterMetricWithoutManifest
    \/ initializeAsync
    \/ listProcessBlocksOk
    \/ manifestsOk
    \/ initializeRejected
    \/ Tick
    \/ FetchResolved
    \/ FetchRejected

SpecVisible == Init /\ [][VisibleNext]_vars

(* --------------------- the tracker on its own --------------------------- *)
\* One coverage tracker and one LOD: the blocks trkIn are registered in every
\* order.
TrkRanges == {r \in (0 .. MaxTrkTime) \X (0 .. MaxTrkTime) : r[1] < r[2]}

TrackerInit ==
    /\ StreamerInit
    /\ DrawIdle
    /\ TextIdle
    /\ UtilIdle
    /\ trkIn \in [1 .. TrkBlocks -> TrkRanges]
    /\ trkDone = {}
    /\ trkCov = <<>>

\* registerBlock for the block i of trkIn
trackerRegisterBlock(i) ==
    /\ i \notin trkDone
    /\ trkDone' = trkDone \cup {i}
    /\ trkCov' = mergeInsert(trkCov, trkIn[i][1], trkIn[i][2])
    /\ UNCHANGED <<trkIn, streamerVars, drawVars, textVars, utilVars>>

TrackerNext == \E i \in DOMAIN trkIn : trackerRegisterBlock(i)

SpecTracker == TrackerInit /\ [][TrackerNext]_vars

(* ------------------- TimelineTrackCanvasBaseDrawer ---------------------- *)
MaxDrawTime == 5
MaxSpans == 3
MaxOffset == 1
MaxScopeHash == 1

\* a span of a SpanTrack: it ends after it began
Spans == {sp \in [beginMs : 0 .. MaxDrawTime, endMs : 0 .. MaxDrawTime] :
             sp.beginMs < sp.endMs}

\* track.spans: ascending, no two spans overlap (they may touch)
SpanTracks ==
    {t \in UNION {[1 .. n -> Spans] : n \in 0 .. MaxSpans} :
        \A i \in 1 .. Len(t) - 1 : t[i].endMs <= t[i + 1].beginMs}

\* <<begin, end>> of a TimelineTrackContext
ViewRanges ==
    {v \in (0 .. MaxDrawTime + MaxOffset) \X (0 .. MaxDrawTime + MaxOffset) :
        v[1] < v[2]}

\* the track and the view range of the scenario of five spans
ScenarioTrack ==
    <<[beginMs |-> 0, endMs |-> 5], [beginMs |-> 10, endMs |-> 15],
      [beginMs |-> 20, endMs |-> 25], [beginMs |-> 30, endMs |-> 35],
      [beginMs |-> 40, endMs |-> 45]>>
ScenarioView == <<12, 32>>

\* variant: the comparator of the first search, kept for the second search
lastSpanComparatorOfFirst(span, needle) ==
    IF span.endMs < needle THEN -1
    ELSE IF span.beginMs > needle THEN 1
    ELSE 0

\* comparator of the search for firstSpan
firstSpanComparator(span, needle) ==
    IF span.endMs < needle THEN -1
    ELSE IF span.beginMs > needle THEN 1
    ELSE 0

\* comparator of the search for lastSpan
lastSpanComparator(span, needle) ==
    IF span.beginMs < needle THEN -1
    ELSE IF span.endMs > needle THEN 1
    ELSE 0

\* ~n on 32-bit integers
BitNot(n) == 0 - n - 1

\* binarySearch(haystack, needle, comparator) on the range low .. high
\* (0-based); cmp[i] is comparator(haystack[i - 1], needle)
RECURSIVE binarySearch(_, _, _)
binarySearch(cmp, low, high) ==
    IF low <= high
    THEN LET mid == low + ((high - low) \div 2)
         IN IF cmp[mid + 1] < 0 THEN binarySearch(cmp, mid + 1, high)
            ELSE IF cmp[mid + 1] > 0 THEN binarySearch(cmp, low, mid - 1)
            ELSE mid
    ELSE BitNot(low)

\* variant: the insertion point is recovered by negation
insertionPointNegated(found) == IF found < 0 THEN 0 - found ELSE found

\* if (found < 0) found = ~found
insertionPoint(found) == IF found < 0 THEN BitNot(found) ELSE found

\* firstSpan of drawSpanTrack
searchFirstSpan(spans, needle) ==
    insertionPoint(binarySearch(
        [i \in 1 .. Len(spans) |-> firstSpanComparator(spans[i], needle)],
        0, Len(spans) - 1))

\* lastSpan of drawSpanTrack
searchLastSpan(spans, needle) ==
    insertionPoint(binarySearch(
        [i \in 1 .. Len(spans) |-> lastSpanComparator(spans[i], needle)],
        0, Len(spans) - 1))

DrawInit ==
    /\ StreamerInit
    /\ TrackerIdle
    /\ TextIdle
    /\ UtilIdle
    /\ \E in \in (SpanTracks \X ViewRanges \X (0 .. MaxOffset))
                    \cup {<<ScenarioTrack, ScenarioView, 0>>} :
          /\ track = in[1]
          /\ viewRange = in[2]
          /\ processOffsetMs = in[3]
    /\ scopeHash \in [1 .. Len(track) -> 0 .. MaxScopeHash]
    /\ scopes \in SUBSET (1 .. MaxScopeHash)
    /\ drawPc = "idle"
    /\ firstSpan = 0
    /\ lastSpan = 0
    /\ visited = {}
    /\ filled = {}
    /\ canvas = "canvas"
    /\ drawable = TRUE
    /\ fills = <<>>

\* `const { name } = scopes[span.scopeHash]` throws a TypeError for the span
\* at spanIndex: its scopeHash is not 0 and the table has no such scope
lookupThrows(spanIndex) ==
    /\ scopeHash[spanIndex + 1] # 0
    /\ scopeHash[spanIndex + 1] \notin scopes

\* where the loop from first to last (exclusive) ends: at the first span
\* whose scope lookup throws, that span included, or at last
loopEnd(first, last) ==
    IF \E i \in first .. (last - 1) : lookupThrows(i)
    THEN 1 + CHOOSE i \in first .. (last - 1) :
                 /\ lookupThrows(i)
                 /\ \A j \in first .. (i - 1) : ~lookupThrows(j)
    ELSE last

\* the body of drawSpanTrack: nothing without a context (line 73), else the
\* two searches and the loop over the spans between them; the spans here
\* are wide enough to be drawn (callWidth >= 0.1)
spanTrackDrawn ==
    IF canvas = "undefined"
    THEN /\ drawPc' = "done"
         /\ UNCHANGED <<firstSpan, lastSpan, visited, filled>>
    ELSE /\ firstSpan' = searchFirstSpan(track, viewRange[1] - processOffsetMs)
         /\ lastSpan' = searchLastSpan(track, viewRange[2] - processOffsetMs)
         /\ LET end == loopEnd(firstSpan', lastSpan')
            IN /\ visited' = firstSpan' .. (end - 1)
               /\ filled' = {i \in firstSpan' .. (end - 1) : ~lookupThrows(i)}
               /\ drawPc' = IF end = lastSpan' /\ filled' = visited'
                            THEN "done" ELSE "threw"

\* drawSpanTrack(trackIndex, track, timelineTrackContext)
drawSpanTrack ==
    /\ drawPc = "idle"
    /\ spanTrackDrawn
    /\ UNCHANGED <<track, viewRange, processOffsetMs, scopeHash, scopes, canvas,
                   drawable, fills, streamerVars, trkVars, textVars, utilVars>>

DrawNext == drawSpanTrack

SpecDraw == DrawInit /\ [][DrawNext]_vars

(* ------------------ the drawer next to the synchronizer ----------------- *)
\* a track of two spans with a gap, the second with a scope
RenderTrack == <<[beginMs |-> 0, endMs |-> 2], [beginMs |-> 3, endMs |-> 5]>>

RenderInit ==
    /\ StreamerInit
    /\ TrackerIdle
    /\ TextIdle
    /\ UtilIdle
    /\ track = RenderTrack
    /\ viewRange \in {v \in ViewRanges : v[1] = 1}
    /\ processOffsetMs = 0
    /\ scopeHash = <<0, 1>>
    /\ scopes = {1}
    /\ canvas \in {"undefined", "canvas"}
    /\ drawable \in BOOLEAN
    /\ drawPc = "idle"
    /\ firstSpan = 0
    /\ lastSpan = 0
    /\ visited = {}
    /\ filled = {}
    /\ fills = <<>>

\* variant: a draw that asks the synchronizer for the blocks of its view range
drawAndFetch ==
    /\ drawPc = "idle"
    /\ drawPc' = "done"
    /\ fetchSelectedMetrics(0, viewRange[1], viewRange[2])
    /\ UNCHANGED <<track, viewRange, processOffsetMs, scopeHash, scopes, canvas,
                   drawable, fills, firstSpan, lastSpan, visited, filled,
                   client, initPc, currentMinMs, currentMaxMs, resolved, failed,
                   nTicks, processBlocks, trkVars, textVars, utilVars>>

\* variant: canDraw() is asked before the background is filled
drawChecksBeforeBackground ==
    /\ drawPc = "idle"
    /\ IF canvas = "undefined" \/ ~drawable
       THEN /\ drawPc' = "done"
            /\ UNCHANGED <<fills, firstSpan, lastSpan, visited, filled>>
       ELSE /\ fills' = fills \o <<"#F0F0F0", "#e8e8e8">>
            /\ spanTrackDrawn
    /\ UNCHANGED <<track, viewRange, processOffsetMs, scopeHash, scopes, canvas,
                   drawable, streamerVars, trkVars, textVars, utilVars>>

\* draw(search): the background, then, if canDraw(), the pixel range and
\* drawImpl, which draws the track
draw ==
    /\ drawPc = "idle"
    /\ IF canvas = "undefined"
       THEN /\ drawPc' = "done"
            /\ UNCHANGED <<fills, firstSpan, lastSpan, visited, filled>>
       ELSE IF ~drawable
       THEN /\ drawPc' = "done"
            /\ fills' = Append(fills, "#F0F0F0")
            /\ UNCHANGED <<firstSpan, lastSpan, visited, filled>>
       ELSE /\ fills' = fills \o <<"#F0F0F0", "#e8e8e8">>
            /\ spanTrackDrawn
    /\ UNCHANGED <<track, viewRange, processOffsetMs, scopeHash, scopes, canvas,
                   drawable, streamerVars, trkVars, textVars, utilVars>>

\* the host ticks once, for the whole range at the finest LOD
RenderTick == nTicks = 0 /\ tick(0, 0, MaxTime)

RenderNext ==
    \/ initializeAsync
    \/ listProcessBlocksOk
    \/ manifestsOk
    \/ initializeRejected
    \/ RenderTick
    \/ FetchResolved
    \/ FetchRejected
    \/ draw

SpecRender == RenderInit /\ [][RenderNext]_vars

(* ------------------------- captions of the spans ------------------------ *)
MaxWidth == 24
MaxCharacterWidth == 2
MaxGlyphWidth == 2

\* "ns::inner::leaf", and names with fewer segments
NsInnerLeaf ==
    <<"n", "s", ":", ":", "i", "n", "n", "e", "r", ":", ":", "l", "e", "a", "f">>
Captions ==
    {NsInnerLeaf, <<"m", "a", "i", "n">>, <<"a", ":", ":", "b">>,
     <<"a", ":", ":", ":", ":", "b">>, <<"a", ":", ":">>, <<":", ":", "b">>}

\* `  (${formatExecutionTime(endSpan - beginSpan)})` for a span of 1 ms
ExecutionTimeCaption == <<" ", " ", "(", "1", "m", "s", ")">>

\* caption.split("::"): cur is the segment being read
RECURSIVE split(_, _)
split(str, cur) ==
    IF str = <<>> THEN <<cur>>
    ELSE IF Len(str) >= 2 /\ str[1] = ":" /\ str[2] = ":"
    THEN <<cur>> \o split(SubSeq(str, 3, Len(str)), <<>>)
    ELSE split(Tail(str), Append(cur, Head(str)))

\* the while loop of getCaptions: it ends at the first empty segment
RECURSIVE restCaptions(_)
restCaptions(segs) ==
    IF segs = <<>> \/ Head(segs) = <<>> THEN <<>>
    ELSE <<[value |-> <<":", ":">> \o Head(segs),
            color |-> IF Len(segs) > 1 THEN "subColor" ELSE "mainColor",
            skippable |-> FALSE]>>
         \o restCaptions(Tail(segs))

\* Array.from(this.getCaptions(name, beginSpan, endSpan))
getCaptions(name) ==
    LET segs == split(name, <<>>)
    IN (IF Len(segs) > 1
        THEN <<[value |-> Head(segs), color |-> "subColor", skippable |-> FALSE]>>
             \o restCaptions(Tail(segs))
        ELSE <<[value |-> name, color |-> "mainColor", skippable |-> FALSE]>>)
       \o <<[value |-> ExecutionTimeCaption, color |-> "subColor",
             skippable |-> TRUE]>>

\* value.slice(0, budget): a negative budget counts from the end
slice(value, budget) ==
    IF budget >= 0
    THEN SubSeq(value, 1, IF budget < Len(value) THEN budget ELSE Len(value))
    ELSE SubSeq(value, 1, Len(value) + budget)

\* ctx.measureText(text).width
measureText(text, glyph) == Len(text) * glyph

RECURSIVE writeText(_, _, _, _, _)
\* variant: an item that does not fit ends the loop instead of being cut
writeTextWholeItems(width, charWidth, items, x, glyph) ==
    IF items = <<>> THEN <<>>
    ELSE LET budget == width \div charWidth
             value == Head(items).value
         IN IF budget = 0 THEN <<>>
            ELSE IF Len(value) > budget /\ Head(items).skippable
            THEN writeText(width, charWidth, Tail(items), x, glyph)
            ELSE IF Len(value) > budget THEN <<>>
            ELSE <<[text |-> value, x |-> x, color |-> Head(items).color]>>
                 \o writeText(width - measureText(value, glyph), charWidth,
                              Tail(items), x + measureText(value, glyph), glyph)

\* writeText(ctx, width, characterWidth, items, x, y): its fillText calls
writeText(width, charWidth, items, x, glyph) ==
    IF items = <<>> THEN <<>>
    ELSE LET budget == width \div charWidth
             value == Head(items).value
             textSlice == slice(value, budget)
             size == measureText(textSlice, glyph)
         IN IF budget = 0 THEN <<>>
            ELSE IF Len(value) > budget /\ Head(items).skippable
            THEN writeText(width, charWidth, Tail(items), x, glyph)
            ELSE <<[text |-> textSlice, x |-> x, color |-> Head(items).color]>>
                 \o writeText(width - size, charWidth, Tail(items), x + size,
                              glyph)

TextInit ==
    /\ StreamerInit
    /\ TrackerIdle
    /\ DrawIdle
    /\ UtilIdle
    /\ caption \in Captions
    /\ textWidth \in 0 .. MaxWidth
    /\ characterWidth \in 1 .. MaxCharacterWidth
    /\ glyphWidth \in 1 .. MaxGlyphWidth
    /\ textPc = "idle"
    /\ drawn = <<>>

\* this.writeText(ctx, callWidth, characterWidth,
\*                Array.from(this.getCaptions(name, ...)), x, y)
writeCaption ==
    /\ textPc = "idle"
    /\ textPc' = "done"
    /\ drawn' = writeText(textWidth, characterWidth, getCaptions(caption), 0,
                          glyphWidth)
    /\ UNCHANGED <<caption, textWidth, characterWidth, glyphWidth,
                   streamerVars, trkVars, drawVars, utilVars>>

TextNext == writeCaption

SpecText == TextInit /\ [][TextNext]_vars

(* ------------------------------ lib/promises ---------------------------- *)
MaxRetries == 3
MaxAttempts == 5

\* n = null: no number of tries was given
Null == NegInfinity

\* what a call of f resolves with, and what it rejects with
Values == {"value1", "value2"}
Errors == {"error1", "error2"}

RetryInit ==
    /\ StreamerInit
    /\ TrackerIdle
    /\ DrawIdle
    /\ TextIdle
    /\ DebounceIdle
    /\ UiIdle
    /\ retryN \in (0 .. MaxRetries) \cup {Null}
    /\ nLeft = retryN
    /\ attempts = <<>>
    /\ retryPc = "awaiting"
    /\ settled = "none"

\* `return await f()`: the call of f that is awaited resolves with v
fResolves(v) ==
    /\ retryPc = "awaiting"
    /\ attempts' = Append(attempts, v)
    /\ retryPc' = "resolved"
    /\ settled' = v
    /\ UNCHANGED <<retryN, nLeft, streamerVars, trkVars, drawVars, textVars,
                   debounceVars, uiVars>>

\* variant: the catch block without the test for null; `null <= 0` holds
fRejectsNullAsZero(e) ==
    /\ retryPc = "awaiting"
    /\ nLeft = Null => Len(attempts) + 1 < MaxAttempts
    /\ attempts' = Append(attempts, e)
    /\ IF nLeft = Null \/ nLeft <= 0
       THEN /\ retryPc' = "rejected"
            /\ settled' = e
            /\ UNCHANGED nLeft
       ELSE /\ nLeft' = nLeft - 1
            /\ UNCHANGED <<retryPc, settled>>
    /\ UNCHANGED <<retryN, streamerVars, trkVars, drawVars, textVars,
                   debounceVars, uiVars>>

\* the catch block: the call of f that is awaited rejects with e; f is
\* called again unless n is a number that is not above 0
fRejects(e) ==
    /\ retryPc = "awaiting"
    /\ nLeft = Null => Len(attempts) + 1 < MaxAttempts
    /\ attempts' = Append(attempts, e)
    /\ IF nLeft = Null
       THEN UNCHANGED <<nLeft, retryPc, settled>>
       ELSE IF nLeft <= 0
       THEN /\ retryPc' = "rejected"
            /\ settled' = e
            /\ UNCHANGED nLeft
       ELSE /\ nLeft' = nLeft - 1
            /\ UNCHANGED <<retryPc, settled>>
    /\ UNCHANGED <<retryN, streamerVars, trkVars, drawVars, textVars,
                   debounceVars, uiVars>>

FResolves == \E v \in Values : fResolves(v)
FRejects == \E e \in Errors : fRejects(e)

RetryNext == FResolves \/ FRejects

SpecRetry == RetryInit /\ [][RetryNext]_vars

MaxMs == 2
MaxNow == 5
MaxCalls == 3

\* the arguments of a call of the debounced function
Args == {"a", "b"}

DebounceInit ==
    /\ StreamerInit
    /\ TrackerIdle
    /\ DrawIdle
    /\ TextIdle
    /\ RetryIdle
    /\ UiIdle
    /\ delayMs \in 1 .. MaxMs
    /\ now = 0
    /\ timeout = <<>>
    /\ calls = <<>>
    /\ invoked = <<>>

\* the timer is set and its delay has not passed
TimerRunning == timeout # <<>> /\ now < timeout[1]

\* variant: a call that finds a timer leaves it as it is
debouncedKeepsTimer(args) ==
    /\ Len(calls) < MaxCalls
    /\ timeout = <<>> \/ TimerRunning
    /\ timeout' = IF timeout # <<>> THEN timeout ELSE <<now + delayMs, args>>
    /\ calls' = Append(calls, <<now, args>>)
    /\ UNCHANGED <<delayMs, now, invoked, streamerVars, trkVars, drawVars,
                   textVars, retryVars,
                   uiVars>>

\* a call of the debounced function: the timer, if set, is cleared and set
\* again; a timer whose delay has passed has fired before
debounced(args) ==
    /\ Len(calls) < MaxCalls
    /\ timeout = <<>> \/ TimerRunning
    /\ timeout' = <<now + delayMs, args>>
    /\ calls' = Append(calls, <<now, args>>)
    /\ UNCHANGED <<delayMs, now, invoked, streamerVars, trkVars, drawVars,
                   textVars, retryVars,
                   uiVars>>

\* the callback of setTimeout, ms after the call that set the timer
timerFires ==
    /\ timeout # <<>>
    /\ now = timeout[1]
    /\ timeout' = <<>>
    /\ invoked' = Append(invoked, <<now, timeout[2]>>)
    /\ UNCHANGED <<delayMs, now, calls, streamerVars, trkVars, drawVars,
                   textVars, retryVars,
                   uiVars>>

\* a millisecond passes; no timer is overdue
timePasses ==
    /\ now < MaxNow
    /\ timeout = <<>> \/ TimerRunning
    /\ now' = now + 1
    /\ UNCHANGED <<delayMs, timeout, calls, invoked, streamerVars, trkVars,
                   drawVars, textVars, retryVars,
                   uiVars>>

Debounced == \E args \in Args : debounced(args)

DebounceNext == Debounced \/ timerFires \/ timePasses

SpecDebounce == DebounceInit /\ [][DebounceNext]_vars

(* ---------------------------- the loading store ------------------------- *)
MaxPromises == 3
MaxResets == 1

\* store.addWork() and store.completeWork()
addWork(s) == [s EXCEPT !.requested = @ + 1]
completeWork(s) == [s EXCEPT !.completed = @ + 1]

\* a promise the loading store was told of: by which function, how it
\* stands, and how many resets had happened by then
NewPromise(via) == [via |-> via, state |-> "pending", resetsBefore |-> resets]

\* loadWrap(action): addWork, the call of action, which returns a promise
\* that is pending, and the finally block, all before loadWrap returns
loadWrap ==
    /\ Len(promises) < MaxPromises
    /\ loadingStore' = completeWork(addWork(loadingStore))
    /\ promises' = Append(promises, NewPromise("loadWrap"))
    /\ UNCHANGED <<resets, dndVars, streamerVars, trkVars, drawVars, textVars,
                   retryVars, debounceVars>>

\* loadPromise(p) up to the await of the promise p
loadPromise ==
    /\ Len(promises) < MaxPromises
    /\ loadingStore' = addWork(loadingStore)
    /\ promises' = Append(promises, NewPromise("loadPromise"))
    /\ UNCHANGED <<resets, dndVars, streamerVars, trkVars, drawVars, textVars,
                   retryVars, debounceVars>>

\* the i-th promise resolves: after `await p`, loadPromise completes the work
promiseResolves(i) ==
    /\ promises[i].state = "pending"
    /\ promises' = [promises EXCEPT ![i].state = "resolved"]
    /\ loadingStore' = IF promises[i].via = "loadPromise"
                       THEN completeWork(loadingStore)
                       ELSE loadingStore
    /\ UNCHANGED <<resets, dndVars, streamerVars, trkVars, drawVars, textVars,
                   retryVars, debounceVars>>

\* the i-th promise rejects: `await p` throws, nothing runs after it
promiseRejects(i) ==
    /\ promises[i].state = "pending"
    /\ promises' = [promises EXCEPT ![i].state = "rejected"]
    /\ UNCHANGED <<loadingStore, resets, dndVars, streamerVars, trkVars,
                   drawVars, textVars, retryVars, debounceVars>>

\* store.reset()
reset ==
    /\ resets < MaxResets
    /\ resets' = resets + 1
    /\ loadingStore' = [requested |-> 0, completed |-> 0]
    /\ UNCHANGED <<promises, dndVars, streamerVars, trkVars, drawVars,
                   textVars, retryVars, debounceVars>>

PromiseResolves == \E i \in DOMAIN promises : promiseResolves(i)
PromiseRejects == \E i \in DOMAIN promises : promiseRejects(i)

LoadNext == loadWrap \/ loadPromise \/ PromiseResolves \/ PromiseRejects \/ reset

SpecLoad == Init /\ [][LoadNext]_vars

(* ------------------------- the dropzone action -------------------------- *)
MaxDispatched == 3

\* the types a draggable can carry; the dropzone accepts the first
ItemTypes == {"a", "b"}
Accept == "a"

\* what the four addEventListener calls of dropzone attach
Attached ==
    {<<"dragenter", "onDragEnter">>, <<"dragleave", "onDragLeave">>,
     <<"dragover", "onDragOver">>, <<"drop", "onDrop">>}

\* what the four removeEventListener calls of destroy() name
Removed ==
    {<<"dragenter", "onDragEnter">>, <<"dragleave", "onDragLeave">>,
     <<"dragover", "onDragOver">>, <<"dragend", "onDrop">>}

\* the custom event a handler of a drag event dispatches
CustomEvent(handler) ==
    CASE handler = "onDragEnter" -> "dnd-dragenter"
      [] handler = "onDragLeave" -> "dnd-dragleave"
      [] handler = "onDragOver" -> "dnd-dragover"
      [] handler = "onDrop" -> "dnd-drop"

\* dropzone(element, { accept }): the handlers are attached
dropzone ==
    /\ dndPc = "none"
    /\ dndPc' = "attached"
    /\ listeners' = listeners \cup Attached
    /\ UNCHANGED <<dndStore, dispatched, loadVars, streamerVars, trkVars,
                   drawVars, textVars, retryVars, debounceVars>>

\* destroy() of the action
destroy ==
    /\ dndPc = "attached"
    /\ dndPc' = "destroyed"
    /\ listeners' = listeners \ Removed
    /\ UNCHANGED <<dndStore, dispatched, loadVars, streamerVars, trkVars,
                   drawVars, textVars, retryVars, debounceVars>>

\* onDragStart of a draggable of the given type: store.set({ item, type })
dragStart(type) ==
    /\ dndStore = "null"
    /\ dndStore' = type
    /\ UNCHANGED <<listeners, dndPc, dispatched, loadVars, streamerVars,
                   trkVars, drawVars, textVars, retryVars, debounceVars>>

\* onDragEnd of the draggable: store.set(null)
dragEnd ==
    /\ dndStore # "null"
    /\ dndStore' = "null"
    /\ UNCHANGED <<listeners, dndPc, dispatched, loadVars, streamerVars,
                   trkVars, drawVars, textVars, retryVars, debounceVars>>

\* a dragenter, dragleave or dragover event on the element: its handler, if
\* attached, dispatches when the store holds an item of an accepted type
dragEvent(type) ==
    /\ Len(dispatched) < MaxDispatched
    /\ dispatched' =
          IF \E h \in {"onDragEnter", "onDragLeave", "onDragOver"} :
                <<type, h>> \in listeners /\ dndStore = Accept
          THEN Append(dispatched, CustomEvent(
                   CHOOSE h \in {"onDragEnter", "onDragLeave", "onDragOver"} :
                       <<type, h>> \in listeners))
          ELSE dispatched
    /\ UNCHANGED <<listeners, dndPc, dndStore, loadVars, streamerVars, trkVars,
                   drawVars, textVars, retryVars, debounceVars>>

\* a drop event on the element whose dataTransfer carries an item of the
\* given type, or nothing ("none"): onDrop, if attached, clears the store
\* and dispatches dnd-drop for an accepted type
dropEvent(payload) ==
    /\ Len(dispatched) < MaxDispatched
    /\ IF <<"drop", "onDrop">> \in listeners
       THEN /\ dndStore' = "null"
            /\ dispatched' = IF payload = Accept
                             THEN Append(dispatched, CustomEvent("onDrop"))
                             ELSE dispatched
       ELSE UNCHANGED <<dndStore, dispatched>>
    /\ UNCHANGED <<listeners, dndPc, loadVars, streamerVars, trkVars, drawVars,
                   textVars, retryVars, debounceVars>>

DragStart == \E type \in ItemTypes : dragStart(type)
DragEvent == \E type \in {"dragenter", "dragleave", "dragover"} : dragEvent(type)
DropEvent == \E payload \in ItemTypes \cup {"none"} : dropEvent(payload)

DndNext ==
    dropzone \/ destroy \/ DragStart \/ dragEnd \/ DragEvent \/ DropEvent

SpecDnd == Init /\ [][DndNext]_vars

(* ------------------------------ claims ---------------------------------- *)
QueueCountIn(q, k) == Cardinality({i \in 1 .. Len(q) : q[i] = k})
Pending(k) == CopiesIn(k, requests) + QueueCountIn(promiseResolverQueue, k)
Covers(cov, lo, hi) == \E i \in 1 .. Len(cov) : cov[i][1] <= lo /\ hi <= cov[i][2]
IsStored(store, k) ==
    /\ k[1] \in DOMAIN store
    /\ <<k[2], k[3]>> \in store[k[1]].stored
    /\ Covers(store[k[1]].coverage[k[3]], BlockMinMs(k[2]), BlockMaxMs(k[2]))
IsPrefix(p, q) == Len(p) <= Len(q) /\ SubSeq(q, 1, Len(p)) = p

\* C1: in every reachable state at most SemaphorePermits (8) fetch tasks are
\* between their acquire and their release, also when more are pending.
C1_HoldersAtMostCapacity == BagCardinality(holders) <= SemaphorePermits

\* C1 witness: the gate is full and further tasks wait for it.
C1_Saturated ==
    /\ BagCardinality(holders) = SemaphorePermits
    /\ Len(promiseResolverQueue) >= 2

\* C2: every fetch_block_metric request without response belongs to a task
\* that holds a unit of the gate; a task that waits for the gate has sent no
\* request, and tasks wait only while no unit is free.
C2_FetchOnlyAfterAcquire ==
    /\ requests \sqsubseteq holders
    /\ \A i \in 1 .. Len(promiseResolverQueue) :
          ~BagIn(promiseResolverQueue[i], requests)
    /\ promiseResolverQueue # <<>> => permits = 0

\* C2 witness: a task that had to wait sent its request after a release
\* (more requests were sent than the gate has units) while others still wait.
C2_QueuedThenFetched ==
    /\ BagCardinality(issued) > SemaphorePermits
    /\ promiseResolverQueue # <<>>
    /\ BagCardinality(requests) = SemaphorePermits

\* C3: the step in which the fetch of k succeeds registers the block in the
\* tracker of its metric (it is stored and its range is covered) and gives
\* the unit of k back: k holds none any more, and the unit is free or went
\* to the first waiting task.
C3_ResolvedRegistersAndReleases ==
    [][\A k \in Keys : (k \in resolved' /\ k \notin resolved) =>
          /\ IsStored(metricStore', k)
          /\ CopiesIn(k, holders') = CopiesIn(k, holders) - 1
          /\ permits' + BagCardinality(holders') = SemaphorePermits
          /\ IF promiseResolverQueue = <<>>
             THEN permits' = permits + 1
             ELSE /\ promiseResolverQueue' = Tail(promiseResolverQueue)
                  /\ BagIn(Head(promiseResolverQueue), holders')]_vars

\* C3 witness: a fetch succeeded, its block is registered, its unit is back.
C3_SomeResolved ==
    \E k \in resolved : IsStored(metricStore, k) /\ ~BagIn(k, holders)

\* C4: the step in which the fetch of k fails gives the unit of k back and
\* leaves the store, hence every coverage, unchanged.
C4_FailedReleasesAndKeepsCoverage ==
    [][\A k \in Keys : (k \in failed' /\ k \notin failed) =>
          /\ metricStore' = metricStore
          /\ CopiesIn(k, holders') = CopiesIn(k, holders) - 1
          /\ permits' + BagCardinality(holders') = SemaphorePermits
          /\ IF promiseResolverQueue = <<>>
             THEN permits' = permits + 1
             ELSE /\ promiseResolverQueue' = Tail(promiseResolverQueue)
                  /\ BagIn(Head(promiseResolverQueue), holders')]_vars

\* C4 witness: a fetch failed, its block is not stored, its unit is back.
C4_SomeFailed ==
    \E k \in failed :
        /\ <<k[2], k[3]>> \notin metricStore[k[1]].stored
        /\ ~BagIn(k, holders)

\* C5: a tick at the LOD of a failed block with a viewport that meets the
\* block's range starts a fetch of that block again.
C5_FailedBlockRefetched ==
    [][\A lod \in Lods, min \in Times, max \in Times, k \in Keys :
          ( /\ min <= max
            /\ tick(lod, min, max)
            /\ k \in failed
            /\ k[3] = lod
            /\ isInViewport(k[2], min, max) )
          => ( BagIn(k, requests') \/ QueueCountIn(promiseResolverQueue', k) > 0 )]_vars

\* C6: no key has two fetches pending (requested or waiting) at once, a
\* block whose fetch succeeded is never fetched again, and
\* requestMissingBlocks returns no block that is pending or resolved,
\* whatever the viewport and the LOD.
C6_NoDuplicateFetch ==
    /\ \A k \in Keys : Pending(k) <= 1
    /\ \A k \in resolved : Pending(k) = 0 /\ CopiesIn(k, issued) = 1
    /\ \A m \in DOMAIN metricStore, lod \in Lods, min \in Times, max \in Times :
          LET bs == requestMissingBlocks(metricStore[m], min, max, lod)
          IN \A i \in 1 .. Len(bs) :
                /\ Pending(<<m, bs[i], lod>>) = 0
                /\ <<m, bs[i], lod>> \notin resolved

\* C6 witness: after two ticks some blocks are pending, one is resolved and
\* one is still missing.
C6_OverlappingTicks ==
    /\ nTicks >= 2
    /\ \E k \in Keys : Pending(k) = 1
    /\ resolved # {}
    /\ \E m \in DOMAIN metricStore, lod \in Lods :
          Len(requestMissingBlocks(metricStore[m], 0, MaxTime, lod)) > 0

\* C7: a tick for which no displayable metric misses a block changes nothing
\* but the viewport: the store and its trackers, the gate and the requests
\* stay as they are.
C7_NothingMissingIsNoOp ==
    [][\A lod \in Lods, min \in Times, max \in Times :
          ( /\ min <= max
            /\ tick(lod, min, max)
            /\ missingTasks(metricStore, displayedMetrics(metricStore),
                            min, max, lod) = <<>> )
          => /\ UNCHANGED <<metricStore, permits, promiseResolverQueue,
                            holders, requests, issued, resolved, failed>>
             /\ currentMinMs' = min
             /\ currentMaxMs' = max]_vars

\* C7 witness: every tick was used, the metrics are registered and blocks are
\* missing, yet fetches were started for the two metrics of block 2 at one
\* LOD only: the other ticks were no-ops.
C7_NoOpTickHappened ==
    /\ nTicks = MaxTicks
    /\ initPc = "done"
    /\ currentMinMs = MaxTime
    /\ BagCardinality(issued) + Len(promiseResolverQueue) = 2

\* C8: the failure of one fetch changes the state of no other task (none is
\* dropped from the queue or loses its request), undoes no registration and
\* leaves the client, the store and the viewport as they are; after it no
\* task waits for the gate while a unit is free.
C8_FailureIsIsolated ==
    [][\A k \in Keys : (k \in failed' /\ k \notin failed) =>
          /\ \A j \in Keys \ {k} :
                CopiesIn(j, requests') + QueueCountIn(promiseResolverQueue', j)
                    = Pending(j)
          /\ promiseResolverQueue' # <<>> =>
                BagCardinality(requests') = SemaphorePermits
          /\ UNCHANGED <<client, initPc, metricStore, currentMinMs,
                         currentMaxMs, resolved, nTicks>>]_vars

\* C8 witness: a fetch failed while the gate was full and tasks waited.
C8_FailureUnderLoad ==
    /\ failed # {}
    /\ promiseResolverQueue # <<>>
    /\ BagCardinality(requests) = SemaphorePermits

\* C9: a tick sets the viewport to its arguments and starts fetches only for
\* blocks that meet it, but removes no pending fetch; the fetch of a block
\* that lies outside the current viewport still registers the block.
C9_StaleFetchesComplete ==
    [][ /\ (nTicks' # nTicks) =>
             /\ requests \sqsubseteq requests'
             /\ holders \sqsubseteq holders'
             /\ IsPrefix(promiseResolverQueue, promiseResolverQueue')
             /\ \A k \in Keys :
                   (CopiesIn(k, requests') + QueueCountIn(promiseResolverQueue', k)
                        > Pending(k))
                   => isInViewport(k[2], currentMinMs', currentMaxMs')
        /\ \A k \in Keys :
             ( /\ k \in resolved' /\ k \notin resolved
               /\ ~isInViewport(k[2], currentMinMs, currentMaxMs) )
             => IsStored(metricStore', k) ]_vars

\* C9 witness: a block was registered although the viewport had moved away
\* from it, while another such fetch is still under way.
C9_StaleFetchRegistered ==
    /\ \E k \in resolved :
          /\ ~isInViewport(k[2], currentMinMs, currentMaxMs)
          /\ IsStored(metricStore, k)
    /\ \E k \in Keys :
          BagIn(k, requests) /\ ~isInViewport(k[2], currentMinMs, currentMaxMs)

\* the coverage as a function of the set of registered ranges: the maximal
\* intervals of their union, in ascending order
Segments(rs) == UNION {r[1] .. (r[2] - 1) : r \in rs}
CanonicalCoverage(rs) ==
    LET segs == Segments(rs)
        starts == {a \in segs : (a - 1) \notin segs}
        endOf(a) == Min({b \in (a + 1) .. (MaxTrkTime + MaxTime + 2) : b \notin segs})
        ord == SortedSeq(starts)
    IN [i \in 1 .. Len(ord) |-> <<ord[i], endOf(ord[i])>>]

\* C10: whatever the order of the registerBlock calls, the coverage is the
\* one the set of registered blocks determines.
C10_RegistrationOrderIndependent ==
    trkCov = CanonicalCoverage({trkIn[i] : i \in trkDone})

\* C10 witness: pairwise different ranges were all registered and merged
\* into one interval that is none of them.
C10_AllRegistered ==
    /\ trkDone = 1 .. TrkBlocks
    /\ Cardinality({trkIn[i] : i \in trkDone}) = TrkBlocks
    /\ Len(trkCov) = 1
    /\ \A i \in trkDone : trkIn[i] # trkCov[1]

(* --------------------- claims on the coverage tracker ------------------- *)
Queries == {q \in Lods \X Times \X Times : q[2] <= q[3]}

TasksOf(q) ==
    missingTasks(metricStore, displayedMetrics(metricStore), q[2], q[3], q[1])

\* the (metric, block, lod) triples the query q = <<lod, min, max>> is about
KnownIn(q) ==
    {k \in Keys : /\ k[1] \in DOMAIN metricStore
                  /\ k[2] \in metricStore[k[1]].blocks
                  /\ k[3] = q[1]
                  /\ isInViewport(k[2], q[2], q[3])}

\* C12: once the fetch of every block in the range of a query has resolved
\* (registerBlock ran for each of them), requestMissingBlocks with these
\* arguments returns nothing for any metric: a tick with this viewport and
\* LOD starts no fetch.
C12_AllRegisteredThenEmpty ==
    \A q \in Queries : KnownIn(q) \subseteq resolved => TasksOf(q) = <<>>

\* C12 witness: after a repeated tick every block of both metrics over the
\* whole time range has been fetched and registered at one LOD.
C12_EverythingFetched ==
    /\ nTicks >= 2
    /\ \E lod \in Lods :
          /\ Cardinality(KnownIn(<<lod, 0, MaxTime>>)) >= NumBlocks + 1
          /\ KnownIn(<<lod, 0, MaxTime>>) \subseteq resolved
          /\ \A k \in KnownIn(<<lod, 0, MaxTime>>) : IsStored(metricStore, k)

\* C13: the stored intervals of one LOD are in ascending order, pairwise
\* disjoint (so none is stored twice), and together they are the union of the
\* registered ranges: nothing more and nothing less.
C13_CoverageDisjointUnion ==
    /\ \A i \in 1 .. Len(trkCov) : trkCov[i][1] < trkCov[i][2]
    /\ \A i \in 1 .. Len(trkCov) - 1 : trkCov[i][2] < trkCov[i + 1][1]
    /\ Segments({trkCov[i] : i \in 1 .. Len(trkCov)})
          = Segments({trkIn[i] : i \in trkDone})

\* C13 witness: two blocks whose ranges overlap without one containing the
\* other were both registered, and the coverage is the one interval of
\* their union.
C13_OverlappingRegistered ==
    \E i, j \in trkDone :
        /\ trkDone = {i, j}
        /\ trkIn[i][1] < trkIn[j][1]
        /\ trkIn[j][1] < trkIn[i][2]
        /\ trkIn[i][2] < trkIn[j][2]
        /\ trkCov = <<<<trkIn[i][1], trkIn[j][2]>>>>

Returned(m, q) ==
    LET bs == requestMissingBlocks(metricStore[m], q[2], q[3], q[1])
    IN {bs[i] : i \in 1 .. Len(bs)}

\* an earlier call of requestMissingBlocks returned the block of k: its fetch
\* task was started, whatever became of it
EverRequested(k) == BagIn(k, issued) \/ QueueCountIn(promiseResolverQueue, k) > 0

C16_EmptyRegistrySentinel ==
    (initPc = "done" /\ DOMAIN metricStore = {} /\ nTicks = 0)
        => /\ currentMinMs = Infinity
           /\ currentMaxMs = NegInfinity
           /\ currentMinMs > currentMaxMs

\* C16 witness: initializeAsync completed for a process without metric
\* blocks.
C16_InitializedEmpty ==
    /\ initPc = "done"
    /\ processBlocks = {}
    /\ DOMAIN metricStore = {}
    /\ nTicks = 0
    /\ currentMinMs > currentMaxMs

(* --------------------------- claims on drawSpanTrack -------------------- *)
beginSpan(i) == track[i + 1].beginMs + processOffsetMs
endSpan(i) == track[i + 1].endMs + processOffsetMs
SpanIndices == 0 .. (Len(track) - 1)

\* C17 as stated: after drawSpanTrack every span whose closed interval
\* meets the closed view range was visited, the spans that only touch the
\* view range included.
C17_VisitsAllIntersecting ==
    drawPc = "done" =>
        \A i \in SpanIndices :
            (beginSpan(i) <= viewRange[2] /\ endSpan(i) >= viewRange[1])
                => i \in visited

\* C18: drawSpanTrack visits only indices of the track, and none of a span
\* that ends before the view range or begins after it.
C18_VisitsNoneOutside ==
    \A i \in visited :
        /\ i \in SpanIndices
        /\ ~(endSpan(i) < viewRange[1])
        /\ ~(beginSpan(i) > viewRange[2])

\* C18 witness: the view range lies in a gap of the track, with a span
\* before it and a span after it, and drawSpanTrack visited nothing.
C18_ViewInGap ==
    /\ drawPc = "done"
    /\ visited = {}
    /\ \E i, j \in SpanIndices :
          endSpan(i) < viewRange[1] /\ viewRange[2] < beginSpan(j)

\* C19: on the track of five spans with the view range [12, 32] and no
\* offset, drawSpanTrack visits the indices 1, 2 and 3 and no other.
C19_ScenarioVisits123 ==
    (/\ drawPc = "done"
     /\ track = ScenarioTrack
     /\ viewRange = ScenarioView
     /\ processOffsetMs = 0)
        => visited = {1, 2, 3}

\* C19 witness: drawSpanTrack ran on the scenario and visited three spans.
C19_ScenarioDrawn ==
    /\ drawPc = "done"
    /\ track = ScenarioTrack
    /\ viewRange = ScenarioView
    /\ firstSpan = 1
    /\ lastSpan = 4
    /\ Cardinality(visited) = 3

(* ----------------------------- claims on captions ----------------------- *)
\* floor(width / characterWidth) at the call of writeText
Budget == textWidth \div characterWidth

\* the call was for "ns::inner::leaf" and the budget holds "ns" but not
\* "ns::inner"
NsOnlyBudget ==
    /\ textPc = "done"
    /\ caption = NsInnerLeaf
    /\ Budget >= 2
    /\ Budget < 9

RECURSIVE InItemOrder(_, _)
InItemOrder(ds, items) ==
    IF ds = <<>> THEN TRUE
    ELSE IF items = <<>> THEN FALSE
    ELSE \/ /\ IsPrefix(Head(ds).text, Head(items).value)
            /\ InItemOrder(Tail(ds), Tail(items))
         \/ InItemOrder(ds, Tail(items))

\* the width writeText has left when it makes its i-th drawing
WidthLeft(i) == textWidth - drawn[i].x

\* C21 as stated: the drawings follow the order of the items, every drawing
\* takes its measured width from the width that is left, no drawing has more
\* characters than the budget of the width left, and nothing is drawn when
\* that budget is zero or below.
C21_WriteTextWithinBudget ==
    /\ InItemOrder(drawn, getCaptions(caption))
    /\ \A i \in 1 .. Len(drawn) - 1 :
          WidthLeft(i + 1) = WidthLeft(i) - measureText(drawn[i].text, glyphWidth)
    /\ \A i \in 1 .. Len(drawn) :
          /\ WidthLeft(i) \div characterWidth > 0
          /\ Len(drawn[i].text) <= WidthLeft(i) \div characterWidth

\* C22 as stated: drawSpanTrack never ends by an exception, and when it is
\* over every span between firstSpan and lastSpan has its rectangle, the
\* spans whose scope the table lacks included.
C22_MissingScopeStillDrawn ==
    drawPc # "idle" =>
        /\ drawPc = "done"
        /\ \A i \in firstSpan .. (lastSpan - 1) : i \in filled

(* ------------------------- claims on frame effects ---------------------- *)
\* C23: a step changes currentMinMs or currentMaxMs only if it is a tick or
\* the end of initializeAsync; the steps in which a fetch resolves or fails,
\* with the fetches they let start, leave both as they are.
C23_OnlyInitializeAndTickMoveViewport ==
    [][(currentMinMs' # currentMinMs \/ currentMaxMs' # currentMaxMs)
          => \/ nTicks' = nTicks + 1
             \/ initPc = "manifests" /\ initPc' = "done"]_vars

\* C23 witness: fetches have resolved and one has failed, a waiting task was
\* let in, and the viewport is still the narrow one of the last tick.
C23_ViewportKeptThroughFetches ==
    /\ resolved # {}
    /\ failed # {}
    /\ BagCardinality(issued) > SemaphorePermits
    /\ currentMinMs = currentMaxMs
    /\ \E k \in resolved : ~isInViewport(k[2], currentMinMs, currentMaxMs)

\* C24: a draw is one step that leaves the synchronizer as it is (no request
\* sent, no gate unit taken, no task queued, no tracker changed), it can be
\* taken while fetches are pending, and what it draws is found with the view
\* range of the state store at that moment.
C24_DrawLeavesSynchronizerAlone ==
    [][drawPc' # drawPc =>
          /\ UNCHANGED streamerVars
          /\ (drawPc' = "done" /\ canvas = "canvas" /\ drawable) =>
                /\ firstSpan' = searchFirstSpan(track, viewRange[1] - processOffsetMs)
                /\ lastSpan' = searchLastSpan(track, viewRange[2] - processOffsetMs)]_vars

\* C24 witness: the track was drawn while fetches were in flight and blocks
\* were still missing from the trackers.
C24_DrawnWhileFetching ==
    /\ drawPc = "done"
    /\ visited # {}
    /\ BagCardinality(requests) >= 2
    /\ resolved # {}
    /\ BagCardinality(holders) = BagCardinality(requests)

(* -------------------------- claims on registration ---------------------- *)
\* the blocks whose manifest describes the metric m
BlocksDescribing(m) ==
    {b \in processBlocks : \E i \in DOMAIN ManifestMetrics(b) : ManifestMetrics(b)[i] = m}

\* trackers of the same names made from other descriptors
OtherStates == [m \in MetricNames |-> NewMetricState(MetricDesc(m, 0))]

\* C25: once initializeAsync is over, the registry holds one tracker per
\* metric name of the manifests; it was made from the descriptor of the first
\* manifest that names the metric, every manifest that names the metric is
\* a block of it, and registering trackers of the same names again leaves
\* the trackers of the registry as they are.
C25_OneTrackerPerName ==
    initPc = "done" =>
        /\ DOMAIN metricStore = {m \in MetricNames : BlocksDescribing(m) # {}}
        /\ \A m \in DOMAIN metricStore :
              /\ metricStore[m].desc = MetricDesc(m, Min(BlocksDescribing(m)))
              /\ metricStore[m].blocks = BlocksDescribing(m)
        /\ \A m \in DOMAIN metricStore :
              registerMetrics(metricStore, OtherStates)[m] = metricStore[m]

\* C25 witness: several manifests named the same metric, and its one tracker
\* has them all as blocks.
C25_SharedName ==
    /\ initPc = "done"
    /\ \E m \in DOMAIN metricStore :
          /\ Cardinality(metricStore[m].blocks) = NumBlocks
          /\ metricStore[m].desc = MetricDesc(m, 1)
    /\ \E m \in DOMAIN metricStore : Cardinality(metricStore[m].blocks) < NumBlocks

(* ------------------------------ claims on retry ------------------------- *)
\* the calls of f made so far: the ones that ended and the one awaited
FCalls == Len(attempts) + (IF retryPc = "awaiting" THEN 1 ELSE 0)

\* C26 as stated: with a number n, f is called at most n times; a promise
\* that resolved has the value of the last call, the only one that did not
\* fail; a promise that rejected has the error of the last call.
C26_AtMostNCalls ==
    retryN # Null =>
        /\ FCalls <= retryN
        /\ retryPc = "resolved" =>
              /\ settled = attempts[Len(attempts)]
              /\ settled \in Values
              /\ \A i \in 1 .. Len(attempts) - 1 : attempts[i] \in Errors
        /\ retryPc = "rejected" =>
              /\ settled = attempts[Len(attempts)]
              /\ \A i \in 1 .. Len(attempts) : attempts[i] \in Errors

(* ----------------------------- claims on debounce ----------------------- *)
\* the call i is the last of its burst: no call follows it within ms
EndsBurst(i) == i = Len(calls) \/ calls[i + 1][1] >= calls[i][1] + delayMs

\* the calls whose invocation is due, in order: the last call of each burst,
\* but for the call whose timer is still set
DueCalls ==
    SortedSeq({i \in 1 .. Len(calls) :
                  EndsBurst(i) /\ (i < Len(calls) \/ timeout = <<>>)})

\* C27: f was invoked once for every burst, ms after the last call of the
\* burst and with its arguments, and for nothing else; a timer that is set
\* is the one of the last call.
C27_OneInvocationPerBurst ==
    /\ invoked = [k \in 1 .. Len(DueCalls) |->
                     <<calls[DueCalls[k]][1] + delayMs, calls[DueCalls[k]][2]>>]
    /\ timeout # <<>> =>
          /\ calls # <<>>
          /\ timeout = <<calls[Len(calls)][1] + delayMs, calls[Len(calls)][2]>>

\* C27 witness: two calls less than ms apart with different arguments led to
\* one invocation with the arguments of the second, and a call ms after the
\* second led to an invocation of its own.
C27_BurstThenSingle ==
    /\ Len(calls) = 3
    /\ calls[1][1] < calls[2][1]
    /\ calls[2][1] < calls[1][1] + delayMs
    /\ calls[1][2] # calls[2][2]
    /\ calls[3][1] = calls[2][1] + delayMs
    /\ invoked = <<<<calls[2][1] + delayMs, calls[2][2]>>,
                  <<calls[3][1] + delayMs, calls[3][2]>>>>

(* ----------------------- claims on failed fetches ----------------------- *)
\* the fetch tasks created for k so far: those that sent their request and
\* those that wait for the gate
TasksStarted(k) == CopiesIn(k, issued) + QueueCountIn(promiseResolverQueue, k)

\* C28: a step that starts a fetch task for a block whose fetch has failed,
\* the failing step included, is a call of tick: no handler of a fetch
\* result starts one.
C28_FailedBlockNotRetried ==
    [][\A k \in Keys :
          (k \in failed' /\ TasksStarted(k)' > TasksStarted(k))
             => nTicks' = nTicks + 1]_vars

\* C28 witness: a fetch failed, ticks and other fetches followed until the
\* gate was idle again, and the failed block was fetched that one time only.
C28_FailedAndLeftAlone ==
    \E k \in failed :
        /\ nTicks = MaxTicks
        /\ resolved # {}
        /\ permits = SemaphorePermits
        /\ Pending(k) = 0
        /\ CopiesIn(k, issued) = 1

(* -------------------- claims on displayable metrics --------------------- *)
\* the keys of the fetch tasks that wait for the gate or hold a unit of it
QueuedOrInFlight ==
    {k \in Keys : Pending(k) > 0 \/ BagIn(k, holders)}

C30_RejectedLeavesNoTrace ==
    initPc = "rejected" =>
        /\ metricStore = <<>>
        /\ nTicks = 0 => currentMinMs = NegInfinity /\ currentMaxMs = Infinity

\* C30 witness: the block list of a process with blocks arrived, then a
\* manifest request failed and initializeAsync rejected.
C30_ManifestFetchFailed ==
    /\ initPc = "rejected"
    /\ processBlocks = ProcessBlocks
    /\ nTicks = 0

(* ---------------------------- claims on draw ---------------------------- *)
\* C31: after draw, a drawer without canvas has filled nothing; a drawer
\* with a canvas has filled the background first, and when canDraw() is
\* false that is all: no selection band, no span of the track visited.
C31_BackgroundFirst ==
    drawPc # "idle" =>
        /\ canvas = "undefined" => fills = <<>> /\ visited = {} /\ filled = {}
        /\ canvas = "canvas" => fills # <<>> /\ fills[1] = "#F0F0F0"
        /\ (canvas = "canvas" /\ ~drawable) =>
              fills = <<"#F0F0F0">> /\ visited = {} /\ filled = {}

\* C31 witness: draw ran on an initialized canvas whose data cannot be drawn
\* yet and left the background only.
C31_BackgroundOnly ==
    /\ drawPc = "done"
    /\ canvas = "canvas"
    /\ ~drawable
    /\ fills = <<"#F0F0F0">>

(* ---------------------- claims on skippable items ----------------------- *)
\* the width the loop of writeText has when it comes to the i-th item of
\* the caption, 1 <= i <= number of items + 1
WidthAt(i) ==
    LET items == getCaptions(caption)
        w[j \in 1 .. Len(items) + 1] ==
            IF j = 1 THEN textWidth
            ELSE LET value == items[j - 1].value
                     budget == w[j - 1] \div characterWidth
                 IN IF budget = 0 \/ (Len(value) > budget /\ items[j - 1].skippable)
                    THEN w[j - 1]
                    ELSE w[j - 1] - measureText(slice(value, budget), glyphWidth)
    IN w[i]

\* the loop of writeText comes to the i-th item: no break before it
ItemReached(i) == \A j \in 1 .. i - 1 : WidthAt(j) \div characterWidth # 0

\* the fillText calls of the loop from the i-th item on
WrittenFrom(i) ==
    LET items == getCaptions(caption)
    IN writeText(WidthAt(i), characterWidth, SubSeq(items, i, Len(items)),
                 textWidth - WidthAt(i), glyphWidth)

\* C32 as stated: when the loop comes to an item longer than the budget of
\* the width left, a skippable item is passed over (nothing drawn for it,
\* the width kept, the later items written as if it were not there) and any
\* other item is drawn cut to exactly that budget.
C32_SkippedOrCutToBudget ==
    textPc = "done" =>
        \A i \in 1 .. Len(getCaptions(caption)) :
            LET item == getCaptions(caption)[i]
                budget == WidthAt(i) \div characterWidth
            IN (ItemReached(i) /\ budget # 0 /\ Len(item.value) > budget) =>
                  IF item.skippable
                  THEN /\ WidthAt(i + 1) = WidthAt(i)
                       /\ WrittenFrom(i) = WrittenFrom(i + 1)
                  ELSE /\ WrittenFrom(i) # <<>>
                       /\ Head(WrittenFrom(i)).text = SubSeq(item.value, 1, budget)
                       /\ Len(Head(WrittenFrom(i)).text) = budget

(* ----------------------- claims on retry without n ---------------------- *)
\* C33: retry without a number of tries never rejects; as long as every
\* call of f has failed, f is being called again; and once it has resolved,
\* the value is that of the last call, the first one that did not fail.
C33_RetriesUntilSuccess ==
    retryN = Null =>
        /\ nLeft = Null
        /\ retryPc # "rejected"
        /\ (\A i \in 1 .. Len(attempts) : attempts[i] \in Errors) =>
              retryPc = "awaiting" /\ settled = "none"
        /\ retryPc = "resolved" =>
              /\ settled = attempts[Len(attempts)]
              /\ settled \in Values
              /\ \A i \in 1 .. Len(attempts) - 1 : attempts[i] \in Errors

\* C33 witness: without a number of tries f failed more often than any
\* number of the model allows, and the call after these resolved.
C33_ResolvedAfterManyFailures ==
    /\ retryN = Null
    /\ retryPc = "resolved"
    /\ Len(attempts) = MaxAttempts
    /\ Len(attempts) > MaxRetries + 1

(* --------------------------- claims on the gate ------------------------- *)
\* no fetch task exists: none waits for the gate, none has a request out
NoTaskRunning == promiseResolverQueue = <<>> /\ requests = EmptyBag

\* the tasks that ended without data and without a fetch error: by an empty
\* response
EndedEmpty ==
    {k \in Keys : /\ CopiesIn(k, issued) > 0
                  /\ Pending(k) = 0
                  /\ k \notin resolved \cup failed}

\* C34: the units out of the gate are exactly the units of the tasks that
\* have a request out, whichever way the tasks before them ended; so when
\* no task is running no unit is held and all SemaphorePermits are free.
C34_NoUnitLeaks ==
    /\ holders = requests
    /\ permits + BagCardinality(holders) = SemaphorePermits
    /\ NoTaskRunning => holders = EmptyBag /\ permits = SemaphorePermits

\* C34 witness: more tasks than the gate has units were started, they ended
\* with data, with an empty response and with an error, and the gate is idle
\* with all its units.
C34_AllPathsTaken ==
    /\ NoTaskRunning
    /\ BagCardinality(issued) > SemaphorePermits
    /\ resolved # {}
    /\ EndedEmpty # {}
    /\ failed # {}
    /\ permits = SemaphorePermits

(* ---------------------------- claims on progress ------------------------ *)
\* every task that was started has ended, its block resolved or failed
AllTasksEnded ==
    /\ NoTaskRunning
    /\ \A k \in Keys : CopiesIn(k, issued) > 0 => k \in resolved \cup failed

\* C35: with a network that answers, whenever tasks wait for the gate or
\* have a request out, a moment comes at which each of them has got its
\* unit, sent its request and ended with its block resolved or failed.
C35_EveryTaskEnds == ~NoTaskRunning ~> AllTasksEnded

\* C35 witness: a task that had to wait for the full gate has sent its
\* request after a fetch failed, and other tasks are still waiting.
C35_WaiterServedAfterFailure ==
    /\ failed # {}
    /\ resolved = {}
    /\ BagCardinality(issued) = SemaphorePermits + 1
    /\ BagCardinality(holders) = SemaphorePermits
    /\ promiseResolverQueue # <<>>

(* --------------------------- claims on getCaptions ---------------------- *)
\* the values of the caption items, joined in order
RECURSIVE JoinValues(_)
JoinValues(items) ==
    IF items = <<>> THEN <<>> ELSE Head(items).value \o JoinValues(Tail(items))

\* the items of getCaptions before the execution time
NameItems == SubSeq(getCaptions(caption), 1, Len(getCaptions(caption)) - 1)

\* C36 as stated: the items written before the execution time spell the
\* name, empty segments included.
C36_ItemsSpellName == textPc = "done" => JoinValues(NameItems) = caption

(* ------------------------ claims on the loading store ------------------- *)
\* no reset() was called since the i-th promise was given to the store
NotResetSince(i) == promises[i].resetsBefore = resets

\* C37 as stated: while a promise made by the action of loadWrap is
\* pending, and the store was not reset, its work is not counted as
\* completed: requested > completed.
C37_PendingWrapIsCounted ==
    \A i \in DOMAIN promises :
        ( /\ promises[i].via = "loadWrap"
          /\ promises[i].state = "pending"
          /\ NotResetSince(i) )
        => loadingStore.requested > loadingStore.completed

\* C38 as stated: when every promise given to loadPromise has settled and
\* the store was never reset, completed = requested.
C38_SettledMeansCompleted ==
    ( /\ resets = 0
      /\ \A i \in DOMAIN promises :
            promises[i].via = "loadPromise" => promises[i].state # "pending" )
    => loadingStore.completed = loadingStore.requested

(* ---------------------------- claims on dropzone ------------------------ *)
\* C39 as stated: destroy() leaves no handler of the action on the element,
\* and a drop event after it neither clears the drag store nor dispatches
\* an event.
C39_DestroyDetachesAll ==
    [][/\ dndPc' = "destroyed" => listeners' \cap Attached = {}
       /\ \A payload \in ItemTypes \cup {"none"} :
             (dndPc = "destroyed" /\ dropEvent(payload))
                => UNCHANGED <<dndStore, dispatched>>]_vars

=============================================================================
